---- MODULE Spec2Model ----
(***************************************************************************)
(* The offline-first report store of coupure-alert-cameroun.               *)
(*                                                                         *)
(* The repository holds two copies of the same store: OutageProvider      *)
(* (lib/outage-store.tsx, found in src/lib/appwrite.ts from line 448) and  *)
(* IncidentProvider (src/app/pdf-report.tsx from line 410).  They differ   *)
(* only in field names; the model follows the outage store and keeps its   *)
(* names.                                                                  *)
(*                                                                         *)
(* A report keeps the fields the store's logic reads or writes: id, type,  *)
(* latitude, longitude, date, confirmations, synced, estRetablie and       *)
(* dateRetablissement.  quartier, ville, region and photoUri are text the  *)
(* store only copies and are left out.                                     *)
(*                                                                         *)
(* Every store operation is an async function of a React component: it     *)
(* reads the state (outages, confirmedIds) of the render it was created    *)
(* in, suspends at each await, and writes whole collections back.  An      *)
(* operation in flight is a task holding what its closure captured; one    *)
(* action is one run of the code between two suspension points.  A call of *)
(* the remote service takes effect on the server and resumes the caller in *)
(* one step; AsyncStorage applies writes in the order they are issued.     *)
(***************************************************************************)
EXTENDS Integers, Sequences, FiniteSets, TLC

\* ---- bounds of the model ----
MaxCalls == 2
MaxFaults == 1
MaxTasks == 2
MaxNow == 1
MaxRecords == 2
MaxClock == 2

\* ---- program constants ----
\* The clock counts days: a tick is 24 hours.
HoursPerDay == 24
PageSize == 200
DefaultRadiusKm == 20

\* ---- values ----
\* null (a missing string) and the empty string are both falsy in the source.
Null == -1
NoId == <<>>
NoInput == [type |-> "", latitude |-> 0, longitude |-> 0, date |-> 0]
\* An AsyncStorage key: <<>> when the key is missing, <<text>> when it holds text.
Missing == <<>>

Slots == 1..MaxTasks

Types == {"water"}
Coordinates == {0}

\* A report sent from another device before this one was installed.
OtherReport == [type |-> "water", latitude |-> 0, longitude |-> 0, date |-> 0]

\* What the caller of addOutage supplies: the record without id, confirmations,
\* synced, estRetablie and dateRetablissement.  `date` is the caller's clock.
Inputs(clock) ==
  {[type |-> ty, latitude |-> la, longitude |-> 0, date |-> clock] :
      ty \in Types, la \in Coordinates}

VARIABLES
  outages,        \* useState<Outage[]>: the in-memory collection
  confirmedIds,   \* useState<Record<string,string>>: the in-memory ledger
  isLoading,      \* useState(true)
  stored,         \* AsyncStorage[OUTAGES_KEY]: Missing or <<the JSON text>>
  storedConfirms, \* AsyncStorage[CONFIRMATIONS_KEY]: Missing or <<the JSON text>>
  remote,         \* the documents of the Appwrite collection, newest first
  now,            \* the device clock
  tasks,          \* the operations in flight, one per slot
  nextSrv,        \* ids handed out by ID.unique() so far
  nextTmp,        \* temporary ids generated so far
  calls,          \* store operations called so far
  faults,         \* steps so far in which a remote call or a storage access was rejected
  last,           \* what the last finished call did (observer)
  completed,      \* report id -> day of the last finished confirmOutage(id) (observer)
  returnedTrue,   \* report id -> day of the last confirmOutage(id) that returned true (observer)
  race,           \* the first pair of overlapping confirmOutage calls on one record (observer)
  query,          \* the last call of a read-only query and what it returned
  removed         \* the ids removeOutage has been called with (observer)

vars == <<outages, confirmedIds, isLoading, stored, storedConfirms, remote,
          now, tasks, nextSrv, nextTmp, calls, faults, last, completed, returnedTrue,
          race, query, removed>>

\* ---- helpers over sequences ----
Ids(list) == {list[i].id : i \in DOMAIN list}

\* Array.prototype.find by id: the index of the first match, 0 when none.
FindIndex(list, id) ==
  IF \E i \in DOMAIN list : list[i].id = id
    THEN CHOOSE i \in DOMAIN list :
           /\ list[i].id = id
           /\ \A j \in DOMAIN list : list[j].id = id => i <= j
    ELSE 0

Take(list, n) == IF Len(list) <= n THEN list ELSE SubSeq(list, 1, n)

\* ---- the calendar ----
\* new Date().toDateString(): the device-local calendar day of the clock.
toDateString(clock) == clock

\* ---- JSON text of the two persisted blobs ----
\* JSON.stringify of Outage[]: each object becomes its field values in order.
stringifyOutages(list) ==
  [i \in DOMAIN list |->
     <<list[i].id, list[i].type, list[i].latitude, list[i].longitude,
       list[i].date, list[i].confirmations, list[i].synced,
       list[i].estRetablie, list[i].dateRetablissement>>]

parseOutages(text) ==
  [i \in DOMAIN text |->
     [id |-> text[i][1], type |-> text[i][2], latitude |-> text[i][3],
      longitude |-> text[i][4], date |-> text[i][5],
      confirmations |-> text[i][6], synced |-> text[i][7],
      estRetablie |-> text[i][8], dateRetablissement |-> text[i][9]]]

\* JSON.stringify of Record<string,string>: the set of key/value pairs.
stringifyConfirms(c) == {<<k, c[k]>> : k \in DOMAIN c}

parseConfirms(text) ==
  [k \in {p[1] : p \in text} |-> (CHOOSE p \in text : p[1] = k)[2]]

\* ---- src/lib/appwrite.ts, the remote service ----
\* listOutages(): Query.orderDesc('createdAt'), Query.limit(200).
listOutages == Take(remote, PageSize)

\* createOutage(data): the document the server stores and returns.
createOutage(data, id, clock) ==
  [id |-> id, type |-> data.type, latitude |-> data.latitude,
   longitude |-> data.longitude, confirmations |-> 1,
   estRetablie |-> FALSE, dateRetablissement |-> Null, createdAt |-> clock]

\* confirmOutageDoc(id): read the document, write confirmations + 1.
confirmOutageDoc(docs, id) ==
  [i \in DOMAIN docs |->
     IF docs[i].id = id
       THEN [docs[i] EXCEPT !.confirmations = docs[i].confirmations + 1]
       ELSE docs[i]]

\* restoreOutageDoc(id).
restoreOutageDoc(docs, id, clock) ==
  [i \in DOMAIN docs |->
     IF docs[i].id = id
       THEN [docs[i] EXCEPT !.estRetablie = TRUE, !.dateRetablissement = clock]
       ELSE docs[i]]

\* deleteOutageDoc(id).
deleteOutageDoc(docs, id) == SelectSeq(docs, LAMBDA d : d.id # id)

\* ---- the store: pure parts ----
\* remoteToLocal(s): `x || dflt` takes dflt for a falsy x (0, null, false).
remoteToLocal(s, clock) ==
  [id |-> s.id, type |-> s.type, latitude |-> s.latitude,
   longitude |-> s.longitude,
   date |-> IF s.createdAt = Null THEN clock ELSE s.createdAt,
   confirmations |-> IF s.confirmations = 0 THEN 1 ELSE s.confirmations,
   synced |-> TRUE,
   estRetablie |-> s.estRetablie,
   dateRetablissement |-> s.dateRetablissement]

Mapped(docs, clock) == [i \in DOMAIN docs |-> remoteToLocal(docs[i], clock)]

\* A merge that appends every server record, matched locally or not.
Merge_AppendAll(local, mapped) ==
  LET updatedLocal ==
        [i \in DOMAIN local |->
           LET k == FindIndex(mapped, local[i].id)
           IN IF k # 0 THEN [mapped[k] EXCEPT !.synced = TRUE] ELSE local[i]]
  IN updatedLocal \o mapped

\* A merge that puts the new server records first.
Merge_NewFirst(local, mapped) ==
  LET localIds == Ids(local)
      updatedLocal ==
        [i \in DOMAIN local |->
           LET k == FindIndex(mapped, local[i].id)
           IN IF k # 0 THEN [mapped[k] EXCEPT !.synced = TRUE] ELSE local[i]]
      newFromServer == SelectSeq(mapped, LAMBDA o : o.id \notin localIds)
  IN newFromServer \o updatedLocal

\* A merge that takes the server as the whole truth and drops what it lacks.
Merge_ServerOnly(local, mapped) ==
  LET localIds == Ids(local)
      serverIds == Ids(mapped)
      kept == SelectSeq(local, LAMBDA o : o.id \in serverIds)
      updatedLocal ==
        [i \in DOMAIN kept |->
           [mapped[FindIndex(mapped, kept[i].id)] EXCEPT !.synced = TRUE]]
      newFromServer == SelectSeq(mapped, LAMBDA o : o.id \notin localIds)
  IN updatedLocal \o newFromServer

\* A merge that marks every local record as synced.
Merge_SyncAll(local, mapped) ==
  LET localIds == Ids(local)
      updatedLocal ==
        [i \in DOMAIN local |->
           LET k == FindIndex(mapped, local[i].id)
           IN IF k # 0 THEN [mapped[k] EXCEPT !.synced = TRUE]
                       ELSE [local[i] EXCEPT !.synced = TRUE]]
      newFromServer == SelectSeq(mapped, LAMBDA o : o.id \notin localIds)
  IN updatedLocal \o newFromServer

\* A merge whose filter is inverted: it appends the server records that a
\* local record already matches.
Merge_AppendKnown(local, mapped) ==
  LET localIds == Ids(local)
      updatedLocal ==
        [i \in DOMAIN local |->
           LET k == FindIndex(mapped, local[i].id)
           IN IF k # 0 THEN [mapped[k] EXCEPT !.synced = TRUE] ELSE local[i]]
      newFromServer == SelectSeq(mapped, LAMBDA o : o.id \in localIds)
  IN updatedLocal \o newFromServer

\* The body of fetchFromAppwrite between the list call and setOutages.
Merge(local, mapped) ==
  LET localIds == Ids(local)
      updatedLocal ==
        [i \in DOMAIN local |->
           LET k == FindIndex(mapped, local[i].id)
           IN IF k # 0 THEN [mapped[k] EXCEPT !.synced = TRUE] ELSE local[i]]
      newFromServer == SelectSeq(mapped, LAMBDA o : o.id \notin localIds)
  IN updatedLocal \o newFromServer

\* An offline record that starts without the reporter's own confirmation.
OfflineOutage_NoConfirmation(input, tempId) ==
  [id |-> tempId, type |-> input.type, latitude |-> input.latitude,
   longitude |-> input.longitude, date |-> input.date,
   confirmations |-> 0, synced |-> FALSE, estRetablie |-> FALSE,
   dateRetablissement |-> Null]

\* The offline record of addOutage's catch branch.
OfflineOutage(input, tempId) ==
  [id |-> tempId, type |-> input.type, latitude |-> input.latitude,
   longitude |-> input.longitude, date |-> input.date,
   confirmations |-> 1, synced |-> FALSE, estRetablie |-> FALSE,
   dateRetablissement |-> Null]

\* Date.now().toString() + Math.random().toString(36).substr(2, 9)
TempId(clock, k) == <<"tmp", clock, k>>

\* ID.unique() of the server.
SrvId(k) == <<"srv", k>>

\* canConfirm(id) over a captured ledger.
canConfirm(confirms, id, clock) ==
  LET today == toDateString(clock)
      lastConfirm == IF id \in DOMAIN confirms THEN confirms[id] ELSE Null
  IN lastConfirm # today

\* A confirmOutage that increments the collection of the moment it writes
\* (a functional update) instead of the one its closure holds.
ConfirmUpdated_Current(local, id) ==
  [i \in DOMAIN outages |->
     IF outages[i].id = id
       THEN [outages[i] EXCEPT !.confirmations = outages[i].confirmations + 1]
       ELSE outages[i]]

\* confirmOutage: `updated` and `newConfirms`, computed before the remote call.
ConfirmUpdated(local, id) ==
  [i \in DOMAIN local |->
     IF local[i].id = id
       THEN [local[i] EXCEPT !.confirmations = local[i].confirmations + 1]
       ELSE local[i]]

NewConfirms(confirms, id, clock) ==
  [k \in DOMAIN confirms \cup {id} |->
     IF k = id THEN toDateString(clock) ELSE confirms[k]]

\* A markRestored that marks every record of the collection.
RestoreUpdated_All(local, id, clock) ==
  [i \in DOMAIN local |->
     [local[i] EXCEPT !.estRetablie = TRUE, !.dateRetablissement = clock]]

\* A markRestored that sets the flag and leaves the date.
RestoreUpdated_FlagOnly(local, id, clock) ==
  [i \in DOMAIN local |->
     IF local[i].id = id
       THEN [local[i] EXCEPT !.estRetablie = TRUE]
       ELSE local[i]]

\* markRestored: `updated`, computed before the remote call.
RestoreUpdated(local, id, clock) ==
  [i \in DOMAIN local |->
     IF local[i].id = id
       THEN [local[i] EXCEPT !.estRetablie = TRUE, !.dateRetablissement = clock]
       ELSE local[i]]

\* A removeOutage that also drops the records never sent to the server.
RemoveFiltered_Synced(prev, id) == SelectSeq(prev, LAMBDA o : o.id # id /\ o.synced)

\* removeOutage: prev.filter(o => o.id !== id).
RemoveFiltered(prev, id) == SelectSeq(prev, LAMBDA o : o.id # id)

\* getRecentOutages(hours).
getRecentOutages(list, hours, clock) ==
  LET cutoff == clock - hours \div HoursPerDay
  IN SelectSeq(list, LAMBDA o : o.date > cutoff /\ ~o.estRetablie)

\* ---- getDistanceKm on a grid of coordinates ----
\* Coordinates are whole degrees taken from a grid on which every sine and
\* cosine of the haversine formula is a multiple of 1/2, so that `a` is a whole
\* number of sixteenths and the arithmetic of the function is exact.
Latitudes == {0, 60}
Longitudes == {0, 60}

\* 2 * Math.sin(d / 2) for a difference of d degrees.
SinHalf(d) == CASE d = 0 -> 0 [] d = 60 -> 1 [] d = -60 -> -1

\* 2 * Math.cos(lat) for a latitude of lat degrees.
Cos(lat) == CASE lat = 0 -> 2 [] lat = 60 -> 1 [] lat = -60 -> 1

\* R * 2 * Math.atan2(Math.sqrt(a), Math.sqrt(1 - a)) with R = 6371, for a in
\* sixteenths, in kilometres rounded up (d <= r for a whole r iff ceil(d) <= r).
ArcKm(a) ==
  CASE a = 0 -> 0     [] a = 1 -> 3220  [] a = 2 -> 4605  [] a = 3 -> 5707
    [] a = 4 -> 6672  [] a = 5 -> 7559  [] a = 6 -> 8398  [] a = 7 -> 9210
    [] a = 8 -> 10008 [] a = 9 -> 10807 [] a = 10 -> 11618 [] a = 11 -> 12457
    [] a = 12 -> 13344 [] a = 13 -> 14309 [] a = 14 -> 15411 [] a = 15 -> 16796
    [] a = 16 -> 20016

\* A distance that weighs the longitude term by the first latitude only.
getDistanceKm_OwnLatitude(lat1, lon1, lat2, lon2) ==
  LET dLat == lat2 - lat1
      dLon == lon2 - lon1
      a == 4 * SinHalf(dLat) * SinHalf(dLat)
             + Cos(lat1) * Cos(lat1) * SinHalf(dLon) * SinHalf(dLon)
  IN ArcKm(a)

\* getDistanceKm(lat1, lon1, lat2, lon2): the haversine distance.
getDistanceKm(lat1, lon1, lat2, lon2) ==
  LET dLat == lat2 - lat1
      dLon == lon2 - lon1
      a == 4 * SinHalf(dLat) * SinHalf(dLat)
             + Cos(lat1) * Cos(lat2) * SinHalf(dLon) * SinHalf(dLon)
  IN ArcKm(a)

\* A nearby query that does not look at the distance.
getNearbyOutages_AnyDistance(list, lat, lon, radius, clock) ==
  LET cutoff == clock - HoursPerDay \div HoursPerDay
  IN SelectSeq(list, LAMBDA o : ~o.estRetablie /\ ~(o.date < cutoff))

\* getNearbyOutages(lat, lon, radiusKm = 20); radius = Null: argument omitted.
getNearbyOutages(list, lat, lon, radius, clock) ==
  LET radiusKm == IF radius = Null THEN DefaultRadiusKm ELSE radius
      cutoff == clock - HoursPerDay \div HoursPerDay
  IN SelectSeq(list, LAMBDA o :
       /\ ~o.estRetablie
       /\ ~(o.date < cutoff)
       /\ getDistanceKm(lat, lon, o.latitude, o.longitude) <= radiusKm)

\* ---- tasks ----
\* op: the operation; pc: the await it is suspended at; id, input: its
\* arguments; local, confirms: the outages and confirmedIds of its closure;
\* at: the clock when it was called; how: the outcome of its remote call.
Idle ==
  [op |-> "idle", pc |-> "", id |-> NoId, input |-> NoInput,
   local |-> <<>>, confirms |-> <<>>, at |-> 0, how |-> ""]

Task(op, pc, id, input, local, confirms, at) ==
  [op |-> op, pc |-> pc, id |-> id, input |-> input,
   local |-> local, confirms |-> confirms, at |-> at, how |-> ""]

\* A new call takes the lowest free slot.
FreeSlot(s) ==
  /\ tasks[s].op = "idle"
  /\ \A r \in Slots : r < s => tasks[r].op # "idle"

Event(op, id, result, how) == [op |-> op, id |-> id, result |-> result, how |-> how]

\* The ids a caller can hold: of records shown now or earlier.
KnownIds == Ids(outages) \cup Ids(remote) \cup DOMAIN confirmedIds

RemoteOutcomes == {"ok", "fail", "lost"}
WriteOutcomes == {"ok", "fail"}

\* 1 when the remote call or the storage access of a step was rejected.
Rejected(r, w) == IF r = "ok" /\ w = "ok" THEN 0 ELSE 1

\* A save that updates the state and never reaches AsyncStorage.
setItem_NotWritten(old, text, w) == old

\* AsyncStorage.setItem(key, text): the blob after a write that succeeds or rejects.
setItem(old, text, w) == IF w = "ok" THEN <<text>> ELSE old

\* No query has been called yet.
NoQuery == [op |-> "", args |-> <<>>, result |-> <<>>]

\* No pair of confirmOutage calls has overlapped yet.
NoRace == [id |-> NoId, start |-> 0, slots |-> {}, returned |-> 0]

\* ---- Init: the provider is mounted on a fresh install, loadData in flight;
\* the server holds one report created from another device ----
Init ==
  /\ outages = <<>>
  /\ confirmedIds = <<>>
  /\ isLoading = TRUE
  /\ stored = Missing
  /\ storedConfirms = Missing
  /\ remote = <<createOutage(OtherReport, SrvId(0), 0)>>
  /\ now = 0
  /\ tasks = [s \in Slots |->
                IF s = 1 THEN Task("load", "read", NoId, NoInput, <<>>, <<>>, 0)
                         ELSE Idle]
  /\ nextSrv = 1
  /\ nextTmp = 1
  /\ calls = 0
  /\ faults = 0
  /\ last = Event("mount", NoId, "void", "")
  /\ completed = <<>>
  /\ returnedTrue = <<>>
  /\ race = NoRace
  /\ query = NoQuery
  /\ removed = {}


\* ---- loadData ----
\* A load whose finally block leaves isLoading as it is.
Finally_Skipped(op, loading) == loading

\* The finally block of loadData: setIsLoading(false).  refreshOutages has none.
Finally(op, loading) == IF op = "load" THEN FALSE ELSE loading

\* Promise.all of the two getItem calls resumes: the persisted blobs become
\* the in-memory state and the reconciliation pass is started with what was
\* read.  A rejected read goes to catch and finally.
LoadRead(s, r) ==
  /\ tasks[s].op = "load" /\ tasks[s].pc = "read"
  /\ faults + Rejected(r, "ok") <= MaxFaults
  /\ faults' = faults + Rejected(r, "ok")
  /\ IF r = "ok"
       THEN LET localOutages ==
                  IF stored # Missing THEN parseOutages(stored[1]) ELSE <<>>
            IN /\ outages' = IF stored # Missing THEN localOutages ELSE outages
               /\ confirmedIds' = IF storedConfirms # Missing
                                    THEN parseConfirms(storedConfirms[1])
                                    ELSE confirmedIds
               /\ tasks' = [tasks EXCEPT ![s] =
                              Task("load", "list", NoId, NoInput, localOutages, <<>>, now)]
               /\ UNCHANGED <<isLoading, last>>
       ELSE /\ isLoading' = Finally(tasks[s].op, isLoading)
            /\ tasks' = [tasks EXCEPT ![s] = Idle]
            /\ last' = Event("load", NoId, "void", "readfail")
            /\ UNCHANGED <<outages, confirmedIds>>
  /\ UNCHANGED <<removed, query, race, returnedTrue, completed, calls, stored, storedConfirms, remote, now, nextSrv, nextTmp>>

\* A catch block that puts the closure's collection back.
Caught_SetsLocal(local, current) == local

\* The catch block of fetchFromAppwrite: a log line, the collection stays.
Caught(local, current) == current

\* ---- fetchFromAppwrite, from the resumption of the list call to its end ----
\* Called by loadData with the collection it read, by refreshOutages with the
\* outages of the closure.  loadData's finally clears isLoading.
FetchDone(s, r, w) ==
  /\ tasks[s].pc = "list"
  /\ faults + Rejected(r, w) <= MaxFaults
  /\ faults' = faults + Rejected(r, w)
  /\ r = "fail" => w = "ok"
  /\ IF r = "ok"
       THEN LET merged == Merge(tasks[s].local, Mapped(listOutages, now))
            IN /\ outages' = merged
               /\ stored' = setItem(stored, stringifyOutages(merged), w)
       ELSE /\ outages' = Caught(tasks[s].local, outages)
            /\ UNCHANGED stored
  /\ isLoading' = Finally(tasks[s].op, isLoading)
  /\ tasks' = [tasks EXCEPT ![s] = Idle]
  /\ last' = Event(tasks[s].op, NoId, "void",
                   IF r = "fail" THEN "listfail" ELSE IF w = "ok" THEN "ok" ELSE "writefail")
  /\ UNCHANGED <<removed, query, race, returnedTrue, completed, calls, confirmedIds, storedConfirms, remote, now, nextSrv, nextTmp>>

\* refreshOutages(): up to the list call.
RefreshCall(s) ==
  /\ FreeSlot(s)
  /\ calls < MaxCalls
  /\ calls' = calls + 1
  /\ tasks' = [tasks EXCEPT ![s] =
                 Task("refresh", "list", NoId, NoInput, outages, <<>>, now)]
  /\ UNCHANGED <<removed, query, race, returnedTrue, completed, faults, outages, confirmedIds, isLoading, stored, storedConfirms,
                 remote, now, nextSrv, nextTmp, last>>

\* ---- addOutage ----
\* addOutage(outage): up to the create call.
AddCall(s, input) ==
  /\ FreeSlot(s)
  /\ calls < MaxCalls
  /\ calls' = calls + 1
  /\ tasks' = [tasks EXCEPT ![s] =
                 Task("add", "create", NoId, input, outages, <<>>, now)]
  /\ UNCHANGED <<removed, query, race, returnedTrue, completed, faults, outages, confirmedIds, isLoading, stored, storedConfirms,
                 remote, now, nextSrv, nextTmp, last>>

\* An add that puts the new record last.
Prepend_AtEnd(newOutage, local) == local \o <<newOutage>>

\* addOutage: updated = [newOutage, ...outages].
Prepend(newOutage, local) == <<newOutage>> \o local

\* An addOutage that always builds the offline record.
NewOutage_AlwaysOffline(input, r, srvId, tempId, clock) ==
  OfflineOutage(input, tempId)

\* The record addOutage builds: the mapped server record, or the offline one.
NewOutage(input, r, srvId, tempId, clock) ==
  IF r = "ok"
    THEN remoteToLocal(createOutage(input, srvId, clock), clock)
    ELSE OfflineOutage(input, tempId)

\* addOutage: from the resumption of the create call to its end.  r = "lost":
\* the server stored the document and the call still rejected.
AddDone(s, r, w) ==
  /\ tasks[s].op = "add" /\ tasks[s].pc = "create"
  /\ faults + Rejected(r, w) <= MaxFaults
  /\ faults' = faults + Rejected(r, w)
  /\ LET newOutage == NewOutage(tasks[s].input, r, SrvId(nextSrv),
                                TempId(now, nextTmp), now)
         updated == Prepend(newOutage, tasks[s].local)
     IN /\ outages' = updated
        /\ stored' = setItem(stored, stringifyOutages(updated), w)
        /\ last' = Event("add", newOutage.id, IF w = "ok" THEN "void" ELSE "throw", r)
  /\ remote' = IF r \in {"ok", "lost"}
                 THEN <<createOutage(tasks[s].input, SrvId(nextSrv), now)>> \o remote
                 ELSE remote
  /\ nextSrv' = IF r \in {"ok", "lost"} THEN nextSrv + 1 ELSE nextSrv
  /\ nextTmp' = IF r = "ok" THEN nextTmp ELSE nextTmp + 1
  /\ tasks' = [tasks EXCEPT ![s] = Idle]
  /\ UNCHANGED <<removed, query, race, returnedTrue, completed, calls, confirmedIds, isLoading, storedConfirms, now>>

\* ---- confirmOutage ----
\* The observer when confirmOutage(id) is called in slot s: the first time a
\* call starts while another call on the same record is still waiting for the
\* server (it has written nothing), both with the same collection in their
\* closure, the pair is remembered with the record's confirmations.
RaceStarted(s, id) ==
  LET peers == {t \in Slots : /\ t # s
                               /\ tasks[t].op = "confirm" /\ tasks[t].pc = "remote"
                               /\ tasks[t].id = id
                               /\ tasks[t].local = outages}
  IN IF race.id = NoId /\ peers # {} /\ id \in Ids(outages)
       THEN [id |-> id, start |-> outages[FindIndex(outages, id)].confirmations,
             slots |-> {s, CHOOSE t \in peers : TRUE}, returned |-> 0]
       ELSE race

\* The observer when the call in slot s ends, having returned true or not.
RaceEnded(s, returnsTrue) ==
  IF s \in race.slots
    THEN [race EXCEPT !.slots = @ \ {s},
                      !.returned = IF returnsTrue THEN @ + 1 ELSE @]
    ELSE race

\* The observer of finished confirmOutage calls: id now maps to the day.
Finished(h, id, clock) ==
  [k \in (DOMAIN h) \cup {id} |-> IF k = id THEN clock ELSE h[k]]

\* confirmOutage(id) when canConfirm(id) is false: return false.
ConfirmBlocked(id) ==
  /\ id \in KnownIds
  /\ ~canConfirm(confirmedIds, id, now)
  /\ last' = Event("confirm", id, "false", "guard")
  /\ completed' = Finished(completed, id, now)
  /\ UNCHANGED <<removed, query, race, returnedTrue, faults, calls, outages, confirmedIds, isLoading, stored, storedConfirms,
                 remote, now, tasks, nextSrv, nextTmp>>

\* confirmOutage(id) when canConfirm(id) is true: up to the remote call.
ConfirmCall(s, id) ==
  /\ FreeSlot(s)
  /\ calls < MaxCalls
  /\ calls' = calls + 1
  /\ id \in KnownIds
  /\ canConfirm(confirmedIds, id, now)
  /\ tasks' = [tasks EXCEPT ![s] =
                 Task("confirm", "remote", id, NoInput, outages,
                      NewConfirms(confirmedIds, id, now), now)]
  /\ race' = RaceStarted(s, id)
  /\ UNCHANGED <<query, removed>>
  /\ UNCHANGED <<returnedTrue, completed, faults, outages, confirmedIds, isLoading, stored, storedConfirms,
                 remote, now, nextSrv, nextTmp, last>>

\* The server applies a call on a document only when it holds the document.
RemoteApplies(r, id) ==
  /\ r \in RemoteOutcomes
  /\ r \in {"ok", "lost"} => id \in Ids(remote)

\* confirmOutage: from the resumption of confirmOutageDoc to the end of
\* saveOutages(updated); a rejected write leaves the function.
ConfirmRemoteDone(s, r, w) ==
  /\ tasks[s].op = "confirm" /\ tasks[s].pc = "remote"
  /\ faults + Rejected(r, w) <= MaxFaults
  /\ faults' = faults + Rejected(r, w)
  /\ RemoteApplies(r, tasks[s].id)
  /\ remote' = IF r \in {"ok", "lost"} THEN confirmOutageDoc(remote, tasks[s].id)
                                        ELSE remote
  /\ LET updated == ConfirmUpdated(tasks[s].local, tasks[s].id)
     IN /\ outages' = updated
        /\ stored' = setItem(stored, stringifyOutages(updated), w)
  /\ IF w = "ok"
       THEN /\ tasks' = [tasks EXCEPT ![s].pc = "saveConfirmations", ![s].how = r]
            /\ UNCHANGED <<last, completed>>
       ELSE /\ tasks' = [tasks EXCEPT ![s] = Idle]
            /\ last' = Event("confirm", tasks[s].id, "throw", r)
            /\ completed' = Finished(completed, tasks[s].id, now)
  /\ race' = IF w = "ok" THEN race ELSE RaceEnded(s, FALSE)
  /\ UNCHANGED <<query, removed>>
  /\ UNCHANGED <<returnedTrue, calls, confirmedIds, isLoading, storedConfirms, now, nextSrv, nextTmp>>

\* confirmOutage: saveConfirmations(newConfirms) and return true.
ConfirmSaveDone(s, w) ==
  /\ tasks[s].op = "confirm" /\ tasks[s].pc = "saveConfirmations"
  /\ faults + Rejected("ok", w) <= MaxFaults
  /\ faults' = faults + Rejected("ok", w)
  /\ confirmedIds' = tasks[s].confirms
  /\ storedConfirms' = setItem(storedConfirms, stringifyConfirms(tasks[s].confirms), w)
  /\ tasks' = [tasks EXCEPT ![s] = Idle]
  /\ last' = Event("confirm", tasks[s].id, IF w = "ok" THEN "true" ELSE "throw",
                   tasks[s].how)
  /\ completed' = Finished(completed, tasks[s].id, now)
  /\ returnedTrue' = IF w = "ok" THEN Finished(returnedTrue, tasks[s].id, now)
                               ELSE returnedTrue
  /\ race' = RaceEnded(s, w = "ok")
  /\ UNCHANGED <<query, removed>>
  /\ UNCHANGED <<calls, outages, isLoading, stored, remote, now, nextSrv, nextTmp>>

\* ---- markRestored ----
\* markRestored(id): up to the remote call.
RestoreCall(s, id) ==
  /\ FreeSlot(s)
  /\ calls < MaxCalls
  /\ calls' = calls + 1
  /\ id \in KnownIds
  /\ tasks' = [tasks EXCEPT ![s] =
                 Task("restore", "remote", id, NoInput, outages, <<>>, now)]
  /\ UNCHANGED <<removed, query, race, returnedTrue, completed, faults, outages, confirmedIds, isLoading, stored, storedConfirms,
                 remote, now, nextSrv, nextTmp, last>>

\* markRestored: from the resumption of restoreOutageDoc to its end.
RestoreDone(s, r, w) ==
  /\ tasks[s].op = "restore" /\ tasks[s].pc = "remote"
  /\ faults + Rejected(r, w) <= MaxFaults
  /\ faults' = faults + Rejected(r, w)
  /\ RemoteApplies(r, tasks[s].id)
  /\ remote' = IF r \in {"ok", "lost"}
                 THEN restoreOutageDoc(remote, tasks[s].id, now)
                 ELSE remote
  /\ LET updated == RestoreUpdated(tasks[s].local, tasks[s].id, tasks[s].at)
     IN /\ outages' = updated
        /\ stored' = setItem(stored, stringifyOutages(updated), w)
  /\ tasks' = [tasks EXCEPT ![s] = Idle]
  /\ last' = Event("restore", tasks[s].id, IF w = "ok" THEN "void" ELSE "throw", r)
  /\ UNCHANGED <<removed, query, race, returnedTrue, completed, calls, confirmedIds, isLoading, storedConfirms, now, nextSrv, nextTmp>>

\* ---- the administrative path: handleDeleteOutage and removeOutage ----
DeleteCall(s, id) ==
  /\ FreeSlot(s)
  /\ calls < MaxCalls
  /\ calls' = calls + 1
  /\ id \in KnownIds
  /\ tasks' = [tasks EXCEPT ![s] =
                 Task("delete", "remote", id, NoInput, <<>>, <<>>, now)]
  /\ UNCHANGED <<removed, query, race, returnedTrue, completed, faults, outages, confirmedIds, isLoading, stored, storedConfirms,
                 remote, now, nextSrv, nextTmp, last>>

\* deleteOutageDoc resumes; on success removeOutage(id) filters the current
\* collection (a functional update) and writes nothing to AsyncStorage.
DeleteDone(s, r) ==
  /\ tasks[s].op = "delete" /\ tasks[s].pc = "remote"
  /\ faults + Rejected(r, "ok") <= MaxFaults
  /\ faults' = faults + Rejected(r, "ok")
  /\ RemoteApplies(r, tasks[s].id)
  /\ remote' = IF r \in {"ok", "lost"} THEN deleteOutageDoc(remote, tasks[s].id)
                                        ELSE remote
  /\ outages' = IF r = "ok" THEN RemoveFiltered(outages, tasks[s].id) ELSE outages
  /\ tasks' = [tasks EXCEPT ![s] = Idle]
  /\ last' = Event("remove", tasks[s].id, IF r = "ok" THEN "void" ELSE "throw", r)
  /\ removed' = IF r = "ok" THEN removed \cup {tasks[s].id} ELSE removed
  /\ UNCHANGED <<query, race, returnedTrue, completed, calls, confirmedIds, isLoading, stored, storedConfirms, now,
                 nextSrv, nextTmp>>

\* ---- the clock ----
\* A day passes.  Calls last seconds: the day changes between calls, while no
\* operation is in flight.
Tick ==
  /\ now < MaxNow
  /\ \A s \in Slots : tasks[s].op = "idle"
  /\ now' = now + 1
  /\ UNCHANGED <<removed, query, race, returnedTrue, completed, faults, calls, outages, confirmedIds, isLoading, stored, storedConfirms,
                 remote, tasks, nextSrv, nextTmp, last>>

Next ==
  \/ \E s \in Slots, r \in WriteOutcomes : LoadRead(s, r)
  \/ \E s \in Slots, r \in WriteOutcomes, w \in WriteOutcomes : FetchDone(s, r, w)
  \/ \E s \in Slots : RefreshCall(s)
  \/ \E s \in Slots, input \in Inputs(now) : AddCall(s, input)
  \/ \E s \in Slots, r \in RemoteOutcomes, w \in WriteOutcomes : AddDone(s, r, w)
  \/ \E id \in KnownIds : ConfirmBlocked(id)
  \/ \E s \in Slots, id \in KnownIds : ConfirmCall(s, id)
  \/ \E s \in Slots, r \in RemoteOutcomes, w \in WriteOutcomes : ConfirmRemoteDone(s, r, w)
  \/ \E s \in Slots, w \in WriteOutcomes : ConfirmSaveDone(s, w)
  \/ \E s \in Slots, id \in KnownIds : RestoreCall(s, id)
  \/ \E s \in Slots, r \in RemoteOutcomes, w \in WriteOutcomes : RestoreDone(s, r, w)
  \/ \E s \in Slots, id \in KnownIds : DeleteCall(s, id)
  \/ \E s \in Slots, r \in RemoteOutcomes : DeleteDone(s, r)
  \/ Tick

Spec == Init /\ [][Next]_vars


\* ---- sequential use: a call starts only when nothing is in flight ----
AllIdle == \A s \in Slots : tasks[s].op = "idle"

SeqRefreshCall(s) == AllIdle /\ RefreshCall(s)
SeqAddCall(s, input) == AllIdle /\ AddCall(s, input)
SeqConfirmCall(s, id) == AllIdle /\ ConfirmCall(s, id)
SeqRestoreCall(s, id) == AllIdle /\ RestoreCall(s, id)
SeqDeleteCall(s, id) == AllIdle /\ DeleteCall(s, id)

SeqNext ==
  \/ \E s \in Slots, r \in WriteOutcomes : LoadRead(s, r)
  \/ \E s \in Slots, r \in WriteOutcomes, w \in WriteOutcomes : FetchDone(s, r, w)
  \/ \E s \in Slots : SeqRefreshCall(s)
  \/ \E s \in Slots, input \in Inputs(now) : SeqAddCall(s, input)
  \/ \E s \in Slots, r \in RemoteOutcomes, w \in WriteOutcomes : AddDone(s, r, w)
  \/ \E id \in KnownIds : ConfirmBlocked(id)
  \/ \E s \in Slots, id \in KnownIds : SeqConfirmCall(s, id)
  \/ \E s \in Slots, r \in RemoteOutcomes, w \in WriteOutcomes : ConfirmRemoteDone(s, r, w)
  \/ \E s \in Slots, w \in WriteOutcomes : ConfirmSaveDone(s, w)
  \/ \E s \in Slots, id \in KnownIds : SeqRestoreCall(s, id)
  \/ \E s \in Slots, r \in RemoteOutcomes, w \in WriteOutcomes : RestoreDone(s, r, w)
  \/ \E s \in Slots, id \in KnownIds : SeqDeleteCall(s, id)
  \/ \E s \in Slots, r \in RemoteOutcomes : DeleteDone(s, r)
  \/ Tick

SeqSpec == Init /\ [][SeqNext]_vars

\* ---- the process is killed and started again ----
\* The operations in flight die with the process; OutageProvider is mounted
\* anew over what AsyncStorage and the server hold: the state of useState's
\* initial values, loadData in flight.
Restart ==
  /\ outages' = <<>>
  /\ confirmedIds' = <<>>
  /\ isLoading' = TRUE
  /\ tasks' = [s \in Slots |->
                 IF s = 1 THEN Task("load", "read", NoId, NoInput, <<>>, <<>>, now)
                          ELSE Idle]
  /\ last' = Event("mount", NoId, "void", "")
  /\ UNCHANGED <<stored, storedConfirms, remote, now, nextSrv, nextTmp, calls,
                 faults, completed, returnedTrue>>
  /\ race' = [race EXCEPT !.slots = {}]
  /\ UNCHANGED <<query, removed>>

\* The server holds two reports created from other devices.
RestartInit ==
  /\ outages = <<>>
  /\ confirmedIds = <<>>
  /\ isLoading = TRUE
  /\ stored = Missing
  /\ storedConfirms = Missing
  /\ remote = <<createOutage(OtherReport, SrvId(1), 0),
                createOutage(OtherReport, SrvId(0), 0)>>
  /\ now = 0
  /\ tasks = [s \in Slots |->
                IF s = 1 THEN Task("load", "read", NoId, NoInput, <<>>, <<>>, 0)
                         ELSE Idle]
  /\ nextSrv = 2
  /\ nextTmp = 1
  /\ calls = 0
  /\ faults = 0
  /\ last = Event("mount", NoId, "void", "")
  /\ completed = <<>>
  /\ returnedTrue = <<>>
  /\ race = NoRace
  /\ query = NoQuery
  /\ removed = {}

RestartNext == Next \/ Restart

RestartSpec == RestartInit /\ [][RestartNext]_vars

\* Restarts in sequential use: a call starts only when nothing is in flight.
SeqRestartNext == SeqNext \/ Restart

SeqRestartSpec == RestartInit /\ [][SeqRestartNext]_vars

\* ---- two reports on the server, no restart ----
TwoReportsSpec == RestartInit /\ [][Next]_vars

SeqTwoReportsSpec == RestartInit /\ [][SeqNext]_vars

\* ---- the read-only queries over a loaded collection ----
\* The radius a caller passes: none, or one of two values of kilometres.
Radii == {Null, 50, 7000}
Hours == {HoursPerDay, 2 * HoursPerDay}

\* A record a collection can hold on day `clock`: reported at a point of the
\* grid on that day or earlier, resolved or not.
QueryRecord(k, lat, lon, date, resolved) ==
  [id |-> SrvId(k), type |-> "water", latitude |-> lat, longitude |-> lon,
   date |-> date, confirmations |-> 1, synced |-> TRUE,
   estRetablie |-> resolved,
   dateRetablissement |-> IF resolved THEN date ELSE Null]

QueryCollections(clock) ==
  UNION {[1..n -> {[lat |-> la, lon |-> lo, date |-> d, resolved |-> b] :
                     la \in Latitudes, lo \in Longitudes, d \in 0..clock,
                     b \in BOOLEAN}] : n \in 0..MaxRecords}

\* The provider has loaded a collection and nothing is in flight.
QueryInit ==
  /\ now \in 0..MaxClock
  /\ \E c \in QueryCollections(now) :
       outages = [k \in DOMAIN c |->
                    QueryRecord(k, c[k].lat, c[k].lon, c[k].date, c[k].resolved)]
  /\ confirmedIds = <<>>
  /\ isLoading = FALSE
  /\ stored = <<stringifyOutages(outages)>>
  /\ storedConfirms = Missing
  /\ remote = <<>>
  /\ tasks = [s \in Slots |-> Idle]
  /\ nextSrv = MaxRecords + 1
  /\ nextTmp = 1
  /\ calls = 0
  /\ faults = 0
  /\ last = Event("load", NoId, "void", "listfail")
  /\ completed = <<>>
  /\ returnedTrue = <<>>
  /\ race = NoRace
  /\ query = NoQuery
  /\ removed = {}

\* A screen calls getDistanceKm, getNearbyOutages or getRecentOutages.  The
\* result depends on the arguments, the collection and the clock alone, so a
\* run observes one call.
DistanceQuery(lat1, lon1, lat2, lon2) ==
  /\ query = NoQuery
  /\ query' = [op |-> "distance", args |-> <<lat1, lon1, lat2, lon2>>,
               result |-> getDistanceKm(lat1, lon1, lat2, lon2)]
  /\ UNCHANGED <<outages, confirmedIds, isLoading, stored, storedConfirms, remote,
                 now, tasks, nextSrv, nextTmp, calls, faults, last, completed,
                 returnedTrue, race, removed>>

NearbyQuery(lat, lon, radius) ==
  /\ query = NoQuery
  /\ query' = [op |-> "nearby", args |-> <<lat, lon, radius>>,
               result |-> getNearbyOutages(outages, lat, lon, radius, now)]
  /\ UNCHANGED <<outages, confirmedIds, isLoading, stored, storedConfirms, remote,
                 now, tasks, nextSrv, nextTmp, calls, faults, last, completed,
                 returnedTrue, race, removed>>

RecentQuery(hours) ==
  /\ query = NoQuery
  /\ query' = [op |-> "recent", args |-> <<hours>>,
               result |-> getRecentOutages(outages, hours, now)]
  /\ UNCHANGED <<outages, confirmedIds, isLoading, stored, storedConfirms, remote,
                 now, tasks, nextSrv, nextTmp, calls, faults, last, completed,
                 returnedTrue, race, removed>>

QueryNext ==
  \/ \E lat1 \in Latitudes, lon1 \in Longitudes,
        lat2 \in Latitudes, lon2 \in Longitudes :
          DistanceQuery(lat1, lon1, lat2, lon2)
  \/ \E lat \in Latitudes, lon \in Longitudes, radius \in Radii :
          NearbyQuery(lat, lon, radius)
  \/ \E hours \in Hours : RecentQuery(hours)

QuerySpec == QueryInit /\ [][QueryNext]_vars

\* ---- every storage read and every list call returns or fails ----
LiveSpec ==
  /\ Spec
  /\ WF_vars(\E s \in Slots, r \in WriteOutcomes : LoadRead(s, r))
  /\ WF_vars(\E s \in Slots, r \in WriteOutcomes, w \in WriteOutcomes : FetchDone(s, r, w))

\* ---- what a step did, read from the tasks and the observer ----
Starts(s, op) == tasks[s].op = "idle" /\ tasks'[s].op = op
Finishes(s, op) == tasks[s].op = op /\ tasks'[s].op = "idle"

\* The ledger says that id was confirmed on the day of the clock.
ConfirmedToday(id) ==
  id \in DOMAIN confirmedIds /\ confirmedIds[id] = toDateString(now)

\* confirmOutage(id) returned false in this step.
ReturnsFalse(id) ==
  /\ last' # last
  /\ last' = Event("confirm", id, "false", "guard")

\* ---- C1 ----
\* A confirmOutage(id) has finished (returned or thrown) on the day of the clock.
FinishedToday(id) == id \in DOMAIN completed /\ completed[id] = now

\* C1: daily guard.  A confirmOutage(id) that starts after another
\* confirmOutage(id) of the same day has finished does not pass the guard (so
\* the counter is raised once in the day), and a call that returns false
\* leaves the in-memory collection, the persisted collection and both ledgers
\* unchanged.
C1_DailyGuard ==
  [][/\ \A s \in Slots :
          Starts(s, "confirm") => ~FinishedToday(tasks'[s].id)
     /\ \A id \in KnownIds :
          ReturnsFalse(id) =>
            UNCHANGED <<outages, stored, confirmedIds, storedConfirms>>
    ]_vars

\* What the guard does ensure: a confirmOutage(id) that passes it adds exactly
\* one to the records with that id and to no other, and when it returns true
\* the ledger maps id to the day of the call; while the in-memory ledger maps
\* id to the current day no confirmOutage(id) passes, and a call returns
\* false only then, changing nothing.
LedgerGuard ==
  [][/\ \A s \in Slots :
          Starts(s, "confirm") => ~ConfirmedToday(tasks'[s].id)
     /\ \A id \in KnownIds :
          ReturnsFalse(id) =>
            /\ ConfirmedToday(id)
            /\ UNCHANGED <<outages, stored, confirmedIds, storedConfirms>>
     /\ \A s \in Slots :
          (tasks[s].op = "confirm" /\ tasks[s].pc = "remote" /\ tasks'[s] # tasks[s]) =>
            /\ Len(outages') = Len(tasks[s].local)
            /\ \A i \in DOMAIN tasks[s].local :
                 outages'[i].confirmations =
                   tasks[s].local[i].confirmations
                     + (IF tasks[s].local[i].id = tasks[s].id THEN 1 ELSE 0)
     /\ \A s \in Slots :
          (Finishes(s, "confirm") /\ last'.result = "true") =>
            /\ tasks[s].id \in DOMAIN confirmedIds'
            /\ confirmedIds'[tasks[s].id] = toDateString(tasks[s].at)
    ]_vars

\* ---- C2 ----
\* C2: confirmations never decrease.  In every step, a record that is in the
\* in-memory collection before and after has at least the confirmations it had.
C2_ConfirmationsNeverDecrease ==
  [][\A i \in DOMAIN outages : \A j \in DOMAIN outages' :
       outages'[j].id = outages[i].id =>
         outages'[j].confirmations >= outages[i].confirmations]_vars

\* ---- C3 ----
\* C3: resolved is terminal.  estRetablie is set only by markRestored; in every
\* step, a record that is resolved before and is still in the collection after
\* is resolved after, and getRecentOutages() does not return it.
C3_ResolvedIsTerminal ==
  [][\A i \in DOMAIN outages : \A j \in DOMAIN outages' :
       (outages'[j].id = outages[i].id /\ outages[i].estRetablie) =>
         /\ outages'[j].estRetablie
         /\ outages[i].id \notin Ids(getRecentOutages(outages', HoursPerDay, now'))]_vars


\* ---- reconciliation passes ----
\* Task s ends a pass whose list call succeeded in this step.
PassMerged(s) ==
  /\ tasks[s].pc = "list"
  /\ tasks'[s].op = "idle"
  /\ last'.how \in {"ok", "writefail"}

\* What the list call returned in this step, mapped to local shape.
ServerNow == Mapped(Take(remote, PageSize), now)

\* ---- C4 ----
\* C4: reconciliation is idempotent.  When a pass has merged the server's
\* list, a second pass over the resulting collection and the same list gives
\* the same collection: same records, same fields, same order.
C4_ReconcileIdempotent ==
  [][\A s \in Slots :
       PassMerged(s) =>
         /\ remote' = remote
         /\ Merge(outages', Mapped(Take(remote', PageSize), now')) = outages'
    ]_vars

\* A pass has ended that kept a local-only record, replaced a matched one and
\* had the server's list to merge.
C4_Witness ==
  /\ last.op = "refresh" /\ last.how = "ok"
  /\ Len(outages) >= 2
  /\ \E i \in DOMAIN outages : ~outages[i].synced
  /\ \E i \in DOMAIN outages : outages[i].id \in Ids(remote)

\* ---- C5 ----
\* C5: the merge result.  When the list call succeeds, the collection the pass
\* stores is the closure's local collection in its order, each record whose
\* id the server lists replaced by the server's mapped record with synced =
\* true, followed by the server records whose id no local record has, each
\* synced, in the server's order.
C5_MergeResult ==
  [][\A s \in Slots :
       PassMerged(s) =>
         LET local == tasks[s].local
             srv == ServerNow
             fresh == {j \in DOMAIN srv : srv[j].id \notin Ids(local)}
             n == Len(local)
         IN /\ Len(outages') = n + Cardinality(fresh)
            /\ \A i \in DOMAIN local :
                 IF local[i].id \in Ids(srv)
                   THEN \E j \in DOMAIN srv :
                          /\ srv[j].id = local[i].id
                          /\ outages'[i] = [srv[j] EXCEPT !.synced = TRUE]
                   ELSE outages'[i] = local[i]
            /\ \A k \in (n + 1)..Len(outages') :
                 /\ outages'[k].synced
                 /\ \E j \in fresh :
                      /\ outages'[k] = srv[j]
                      /\ Cardinality({h \in fresh : h < j}) = k - n - 1
            /\ last'.how = "ok" => stored' = <<stringifyOutages(outages')>>
    ]_vars

\* A pass has ended that replaced a local record and appended a server record
\* the device had never held.
C5_Witness ==
  /\ last.op = "refresh" /\ last.how = "ok"
  /\ Len(outages) = 3
  /\ outages[2].id = SrvId(0) /\ outages[2].synced
  /\ outages[3].id = SrvId(1) /\ outages[3].synced

\* ---- C6 ----
\* C6: a pass keeps local-only records.  The records of the closure's local
\* collection whose id the server does not list are in the merged collection
\* unchanged and in the same order; an unsynced record with a temporary id and
\* a server record of the same report under another id are both in it.
SameReport(a, b) ==
  /\ a.type = b.type /\ a.latitude = b.latitude
  /\ a.longitude = b.longitude /\ a.date = b.date

C6_LocalOnlyKept ==
  [][\A s \in Slots :
       PassMerged(s) =>
         LET local == tasks[s].local
             srvIds == Ids(ServerNow)
             LocalOnly(o) == o.id \notin srvIds
         IN /\ SelectSeq(outages', LocalOnly) = SelectSeq(local, LocalOnly)
            /\ \A i \in DOMAIN local :
                 (~local[i].synced /\ local[i].id[1] = "tmp") =>
                   /\ outages'[i] = local[i]
                   /\ \A j \in DOMAIN ServerNow :
                        SameReport(ServerNow[j], local[i]) =>
                          \E k \in DOMAIN outages' :
                            k # i /\ outages'[k].id = ServerNow[j].id
    ]_vars

\* A pass has ended with an unsynced temporary record and a server record of
\* the same report side by side.
C6_Witness ==
  /\ last.op \in {"load", "refresh"} /\ last.how = "ok"
  /\ \E i \in DOMAIN outages : \E k \in DOMAIN outages :
       /\ i # k
       /\ ~outages[i].synced /\ outages[i].id[1] = "tmp"
       /\ outages[k].synced /\ outages[k].id[1] = "srv"
       /\ outages[k].id # SrvId(0)
       /\ SameReport(outages[i], outages[k])

\* ---- C8 ----
\* C8: the add postcondition.  addOutage captures the in-memory collection
\* when it is called, and when it ends, whether the create call succeeded or
\* not, the in-memory collection is the new record followed by the captured
\* collection in its order: one element longer, the new record first.
C8_AddPostcondition ==
  [][\A s \in Slots :
       /\ Starts(s, "add") => tasks'[s].local = outages
       /\ Finishes(s, "add") =>
            /\ Len(outages') = Len(tasks[s].local) + 1
            /\ outages'[1].id = last'.id
            /\ outages'[1].id \notin Ids(tasks[s].local)
            /\ SubSeq(outages', 2, Len(outages')) = tasks[s].local
    ]_vars

\* Two adds have ended, one online and one offline, the later one first.
C8_Witness ==
  /\ last.op = "add"
  /\ Len(outages) = 3
  /\ outages[1].id = last.id
  /\ outages[1].synced # outages[2].synced


\* ---- C7 ----
\* C7: offline add.  Whenever the create call fails, addOutage ends without
\* raising an error, and the record it inserts is first in the in-memory
\* collection, with a non-empty temporary id, confirmations = 1, synced =
\* false, estRetablie = false and dateRetablissement = null.
C7_OfflineAdd ==
  [][\A s \in Slots :
       (Finishes(s, "add") /\ last'.how \in {"fail", "lost"}) =>
         /\ last'.result # "throw"
         /\ outages'[1].id # NoId /\ outages'[1].id[1] = "tmp"
         /\ outages'[1].id = last'.id
         /\ outages'[1].confirmations = 1
         /\ ~outages'[1].synced
         /\ ~outages'[1].estRetablie
         /\ outages'[1].dateRetablissement = Null
    ]_vars

\* ---- C9 ----
\* C9: mutations never throw.  addOutage, confirmOutage and markRestored end
\* without raising an error whatever the remote calls and the AsyncStorage
\* writes do; the only negative outcome is confirmOutage returning false.
C9_MutationsNeverThrow ==
  last.op \in {"add", "confirm", "restore"} => last.result \in {"void", "true", "false"}

\* ---- C10 ----
Agree == stored = <<stringifyOutages(outages)>> /\ parseOutages(stored[1]) = outages

LedgerAgree ==
  /\ storedConfirms = <<stringifyConfirms(confirmedIds)>>
  /\ parseConfirms(storedConfirms[1]) = confirmedIds

WroteCollection(s) ==
  \/ Finishes(s, "add") /\ last'.result = "void"
  \/ Finishes(s, "restore") /\ last'.result = "void"
  \/ tasks[s].op = "confirm" /\ tasks[s].pc = "remote"
       /\ tasks'[s].pc = "saveConfirmations"
  \/ tasks[s].pc = "list" /\ tasks'[s].op = "idle" /\ last'.how = "ok"

\* Task s wrote the ledger in this step and AsyncStorage accepted it.
WroteLedger(s) == Finishes(s, "confirm") /\ last'.result = "true"

\* This step is a removeOutage, or a write that AsyncStorage rejected.
RemovedOrRejected ==
  /\ \E s \in Slots : tasks[s].op # "idle" /\ tasks'[s].op = "idle"
  /\ \/ last'.op = "remove"
     \/ last'.result = "throw"
     \/ last'.how = "writefail"

C11_Lifecycle ==
  /\ isLoading = TRUE
  /\ (isLoading = TRUE) ~> (isLoading = FALSE)
  /\ [][isLoading = FALSE => isLoading' = FALSE]_vars

\* The store is ready after a first load that found no persisted data and
\* whose list call failed.
C11_Witness ==
  /\ ~isLoading
  /\ last.op = "load" /\ last.how = "listfail"
  /\ stored = Missing /\ outages = <<>>

\* ---- C12 ----
\* Task s ends a pass whose list call failed in this step.
PassFailed(s) ==
  /\ tasks[s].pc = "list"
  /\ tasks'[s].op = "idle"
  /\ last'.how = "listfail"

\* C12: a failed pass is absorbed.  When the list call of loadData's pass or
\* of refreshOutages fails, the pass ends without raising an error and leaves
\* the in-memory collection, the persisted collection and both ledgers as
\* they are.
C12_PassFailureAbsorbed ==
  [][\A s \in Slots :
       PassFailed(s) =>
         /\ last'.result = "void"
         /\ UNCHANGED <<outages, stored, confirmedIds, storedConfirms>>
    ]_vars

\* A refresh has failed after an add that ran during it: the collection
\* holds the added record, which the refresh had not captured.
C12_Witness ==
  /\ last.op = "refresh" /\ last.how = "listfail"
  /\ AllIdle
  /\ Len(outages) = 2
  /\ stored = <<stringifyOutages(outages)>>

\* ---- C13 ----
\* C13: confirm survives a remote failure.  When confirmOutage(id) has passed
\* the guard and confirmOutageDoc fails, the call returns true, the records
\* with that id have one confirmation more than when it was called, and the
\* ledger maps id to the day of the call.
C13_ConfirmSurvivesRemoteFailure ==
  [][\A s \in Slots :
       (Finishes(s, "confirm") /\ last'.how \in {"fail", "lost"}) =>
         /\ last'.result = "true"
         /\ tasks[s].id \in DOMAIN confirmedIds'
         /\ confirmedIds'[tasks[s].id] = toDateString(tasks[s].at)
         /\ Len(outages') = Len(tasks[s].local)
         /\ \A i \in DOMAIN tasks[s].local :
              tasks[s].local[i].id = tasks[s].id =>
                outages'[i].confirmations = tasks[s].local[i].confirmations + 1
    ]_vars

\* The part of C13 that holds: the same, for calls whose AsyncStorage writes
\* were accepted (the call did not throw).
ConfirmSurvivesWhenWritten ==
  [][\A s \in Slots :
       (Finishes(s, "confirm") /\ last'.how \in {"fail", "lost"}
          /\ last'.result # "throw") =>
         /\ last'.result = "true"
         /\ tasks[s].id \in DOMAIN confirmedIds'
         /\ confirmedIds'[tasks[s].id] = toDateString(tasks[s].at)
         /\ Len(outages') = Len(tasks[s].local)
         /\ \A i \in DOMAIN tasks[s].local :
              tasks[s].local[i].id = tasks[s].id =>
                outages'[i].confirmations = tasks[s].local[i].confirmations + 1
    ]_vars

\* ---- C14 ----
\* Task s is loadData and its two getItem calls resolve in this step.
ReadsPersisted(s) ==
  /\ tasks[s].op = "load" /\ tasks[s].pc = "read"
  /\ tasks'[s].op = "load" /\ tasks'[s].pc = "list"

\* C14: the daily guard survives a restart.  When a store instance reads the
\* persisted state, its ledger becomes the persisted ledger, or stays the
\* ledger it has (empty at mount) when the key is missing; every id for which
\* confirmOutage returned true on the current day is then in the ledger with
\* that day, so canConfirm(id) is false.
C14_GuardSurvivesRestart ==
  [][\A s \in Slots :
       ReadsPersisted(s) =>
         /\ confirmedIds' = IF storedConfirms = Missing
                               THEN confirmedIds
                               ELSE parseConfirms(storedConfirms[1])
         /\ \A id \in DOMAIN returnedTrue :
              returnedTrue[id] = now => ~canConfirm(confirmedIds', id, now)
    ]_vars

\* ---- C15 ----
\* confirmOutage(id) last returned true on a day before the day of the clock.
ReturnedTrueEarlier(id, clock) ==
  id \in DOMAIN returnedTrue /\ returnedTrue[id] < clock

\* C15: day rollover.  When confirmOutage(id) has returned true on an earlier
\* day and not yet on the current day, a confirmOutage(id) is not refused,
\* and when it ends it has returned true, the records with that id have one
\* confirmation more than when it was called, and the ledger maps id to the
\* current day.
C15_DayRollover ==
  [][/\ \A id \in KnownIds :
          ReturnsFalse(id) => ~ReturnedTrueEarlier(id, now)
     /\ \A s \in Slots :
          (Finishes(s, "confirm") /\ ReturnedTrueEarlier(tasks[s].id, tasks[s].at)) =>
            /\ last'.result = "true"
            /\ confirmedIds'[tasks[s].id] = toDateString(tasks[s].at)
            /\ Len(outages') = Len(tasks[s].local)
            /\ \A i \in DOMAIN tasks[s].local :
                 tasks[s].local[i].id = tasks[s].id =>
                   outages'[i].confirmations = tasks[s].local[i].confirmations + 1
    ]_vars

\* The part of C15 that holds: on a later day the guard lets the call pass,
\* and a call whose writes were accepted returns true, adds one and moves the
\* ledger entry to the current day.
RolloverWhenWritten ==
  [][/\ \A s \in Slots, id \in KnownIds :
          (AllIdle /\ FreeSlot(s) /\ calls < MaxCalls
             /\ id \in DOMAIN confirmedIds /\ confirmedIds[id] < toDateString(now)) =>
            ENABLED ConfirmCall(s, id)
     /\ \A s \in Slots :
          (Finishes(s, "confirm") /\ ReturnedTrueEarlier(tasks[s].id, tasks[s].at)
             /\ last'.result # "throw") =>
            /\ last'.result = "true"
            /\ confirmedIds'[tasks[s].id] = toDateString(tasks[s].at)
            /\ Len(outages') = Len(tasks[s].local)
            /\ \A i \in DOMAIN tasks[s].local :
                 tasks[s].local[i].id = tasks[s].id =>
                   outages'[i].confirmations = tasks[s].local[i].confirmations + 1
    ]_vars

\* ---- C16 ----
\* C16: confirmations lower bound.  Every record of the in-memory collection
\* has confirmations >= 1, whether addOutage built it from the server's
\* document, built it offline, or a pass learned it from the server.
C16_ConfirmationsAtLeastOne ==
  \A i \in DOMAIN outages : outages[i].confirmations >= 1

\* The collection holds a record learned from the server, a record added
\* online and a record added offline.
C16_Witness ==
  /\ \E i \in DOMAIN outages : outages[i].id = SrvId(0)
  /\ \E i \in DOMAIN outages : outages[i].id = SrvId(1) /\ outages[i].synced
  /\ \E i \in DOMAIN outages : outages[i].id[1] = "tmp" /\ ~outages[i].synced

\* ---- C17 ----
\* C17: resolution date invariant.  For every record of the in-memory
\* collection, dateRetablissement is non-null exactly when estRetablie is true.
C17_ResolutionDateIffResolved ==
  \A i \in DOMAIN outages :
    (outages[i].dateRetablissement # Null) <=> outages[i].estRetablie

\* The collection holds a record marked restored offline, with its date, next
\* to an unresolved record without one.
C17_Witness ==
  /\ last.op = "restore" /\ last.how = "fail"
  /\ \E i \in DOMAIN outages :
       /\ outages[i].id = last.id
       /\ outages[i].estRetablie /\ outages[i].dateRetablissement # Null
  /\ \E i \in DOMAIN outages :
       ~outages[i].estRetablie /\ outages[i].dateRetablissement = Null

\* ---- C18 ----
\* C18: markRestored, effect and frame.  markRestored(id) captures the
\* in-memory collection and the clock when it is called; when it ends the
\* collection is the captured one with estRetablie = true and
\* dateRetablissement = the time of the call on the records with that id,
\* whatever they held, every other field and every other record as captured;
\* the ledgers are unchanged, and a failure of restoreOutageDoc is not
\* raised: the call throws only when AsyncStorage rejects the write.
C18_MarkRestoredFrame ==
  [][\A s \in Slots :
       /\ Starts(s, "restore") =>
            tasks'[s].local = outages /\ tasks'[s].at = now
       /\ Finishes(s, "restore") =>
            LET local == tasks[s].local
            IN /\ Len(outages') = Len(local)
               /\ \A i \in DOMAIN local :
                    outages'[i] =
                      IF local[i].id = tasks[s].id
                        THEN [id |-> local[i].id, type |-> local[i].type,
                              latitude |-> local[i].latitude,
                              longitude |-> local[i].longitude,
                              date |-> local[i].date,
                              confirmations |-> local[i].confirmations,
                              synced |-> local[i].synced,
                              estRetablie |-> TRUE,
                              dateRetablissement |-> tasks[s].at]
                        ELSE local[i]
               /\ UNCHANGED <<confirmedIds, storedConfirms>>
               /\ last'.result = "void" \/ stored' = stored
               /\ stored' # stored => stored' = <<stringifyOutages(outages')>>
    ]_vars

\* A markRestored whose remote call failed has ended normally: of two
\* records, the one it named is restored and the other is not.
C18_Witness ==
  /\ last.op = "restore" /\ last.how = "fail" /\ last.result = "void"
  /\ Len(outages) = 2
  /\ \E i \in DOMAIN outages : outages[i].id = last.id /\ outages[i].estRetablie
  /\ \E i \in DOMAIN outages : outages[i].id # last.id /\ ~outages[i].estRetablie

\* ---- C19 ----
\* Record o was built by addOutage's catch branch: temporary id, not synced.
IsOffline(o) == o.id[1] = "tmp" /\ ~o.synced

\* C19: no retry of an offline add.  While the server lists no document
\* under its temporary id, a record built offline stays unsynced under that
\* id in every step that keeps it, and the store sends no create for it: a
\* document is created on the server only by the addOutage call that ends in
\* that step, from that call's own input.
C19_NoRetryOfOfflineAdd ==
  [][/\ \A i \in DOMAIN outages :
          (IsOffline(outages[i]) /\ outages[i].id \notin Ids(remote')) =>
            \A j \in DOMAIN outages' :
              outages'[j].id = outages[i].id => IsOffline(outages'[j])
     /\ remote' # remote =>
          \/ Ids(remote') \subseteq Ids(remote)
          \/ \E s \in Slots :
               /\ Finishes(s, "add")
               /\ last'.how \in {"ok", "lost"}
               /\ remote' = <<createOutage(tasks[s].input, SrvId(nextSrv), now)>> \o remote
    ]_vars

\* A refresh has merged the server's list after an offline add: the offline
\* record is still unsynced under its temporary id and the server holds only
\* the report it held before.
C19_Witness ==
  /\ last.op = "refresh" /\ last.how = "ok"
  /\ \E i \in DOMAIN outages : IsOffline(outages[i])
  /\ Ids(remote) = {SrvId(0)}

\* ---- C20 ----
\* C20: online add.  When createOutage succeeds, the record addOutage inserts
\* is the document the server returned mapped by remoteToLocal: it carries
\* the id the server assigned and synced = true, with the caller's type and
\* coordinates, confirmations = 1, unresolved; no temporary id is generated.
C20_OnlineAdd ==
  [][\A s \in Slots :
       (Finishes(s, "add") /\ last'.how = "ok") =>
         LET created == remote'[1]
         IN /\ created.id = SrvId(nextSrv) /\ created.id \notin Ids(remote)
            /\ outages'[1] = remoteToLocal(created, now)
            /\ outages'[1].id = created.id
            /\ outages'[1].synced
            /\ outages'[1].type = tasks[s].input.type
            /\ outages'[1].latitude = tasks[s].input.latitude
            /\ outages'[1].longitude = tasks[s].input.longitude
            /\ outages'[1].confirmations = 1
            /\ ~outages'[1].estRetablie
            /\ nextTmp' = nextTmp
            /\ \A i \in DOMAIN outages' :
                 outages'[i].id[1] = "tmp" => outages'[i].id \in Ids(tasks[s].local)
    ]_vars

\* An online add has ended normally: the first record is the synced record
\* of the document the server created, ahead of the record known before.
C20_Witness ==
  /\ last.op = "add" /\ last.how = "ok" /\ last.result = "void"
  /\ Len(outages) >= 2
  /\ outages[1].id = last.id /\ outages[1].id \in Ids(remote)
  /\ outages[1].synced
  /\ stored = <<stringifyOutages(outages)>>

\* ---- C21 ----
\* The record of the collection with the id the overlapping calls confirm.
RacedRecord(list) == list[FindIndex(list, race.id)]

\* C21: the lost-update race.  Two confirmOutage calls on the same record
\* that are both started before either has written (both passed the guard,
\* both hold the same collection) each write the confirmations the record
\* started with plus one: the second write does not add to the first, and
\* returning true leaves the collection as the write left it.
C21_LostUpdate ==
  [][/\ \A s \in race.slots :
          (tasks[s].pc = "remote" /\ tasks'[s].pc # "remote") =>
            /\ race.id \in Ids(outages')
            /\ RacedRecord(outages').confirmations = race.start + 1
     /\ \A s \in race.slots :
          (tasks[s].pc = "saveConfirmations" /\ tasks'[s].op = "idle") =>
            outages' = outages
    ]_vars

\* Both overlapping calls have returned true, and the record stands one above
\* the confirmations it started with; the server has counted both.
C21_Witness ==
  /\ race.returned = 2
  /\ race.id \in Ids(outages)
  /\ RacedRecord(outages).confirmations = race.start + 1
  /\ RacedRecord(remote).confirmations = race.start + 2
  /\ ConfirmedToday(race.id)

\* ---- C22 ----
\* C22: removeOutage touches memory only.  In the step in which the
\* administrative delete calls removeOutage(id), the in-memory collection
\* loses exactly the records with that id and keeps the others in their
\* order; the persisted collection and both ledgers stay as they are, and the
\* server changes only by the deleteOutageDoc the administrative path made
\* before the call.  When deleteOutageDoc rejects, removeOutage is not called.
C22_RemoveMemoryOnly ==
  [][\A s \in Slots :
       Finishes(s, "delete") =>
         LET id == tasks[s].id
             kept == {j \in DOMAIN outages : outages[j].id # id}
         IN /\ UNCHANGED <<stored, storedConfirms, confirmedIds>>
            /\ IF last'.result = "void"
                 THEN /\ Len(outages') = Cardinality(kept)
                      /\ \A j \in kept :
                           outages'[Cardinality({h \in kept : h <= j})] = outages[j]
                      /\ id \notin Ids(outages')
                      /\ remote' = deleteOutageDoc(remote, id)
                 ELSE outages' = outages
    ]_vars

\* removeOutage has removed a record and kept another; the persisted
\* collection still holds the removed record.
C22_Witness ==
  /\ last.op = "remove" /\ last.result = "void"
  /\ last.id \notin Ids(outages)
  /\ outages # <<>>
  /\ stored # Missing
  /\ last.id \in Ids(parseOutages(stored[1]))
  /\ last.id \notin Ids(remote)

\* ---- C23 ----
\* C23: getNearbyOutages is the conjunction of three filters.  What
\* getNearbyOutages(lat, lon, radiusKm) returns is, in the order of the
\* collection, exactly the records that are not resolved, whose date is not
\* more than 24 hours before the clock, and whose distance from (lat, lon) is
\* at most radiusKm (20 when the argument is omitted): a close record older
\* than 24 hours, a recent record farther than radiusKm and a resolved record
\* are not returned.
C23_NearbyFilters ==
  query.op = "nearby" =>
    LET lat == query.args[1]
        lon == query.args[2]
        radiusKm == IF query.args[3] = Null THEN DefaultRadiusKm ELSE query.args[3]
        wanted == {i \in DOMAIN outages :
                     /\ ~outages[i].estRetablie
                     /\ now - outages[i].date <= 1
                     /\ getDistanceKm(lat, lon, outages[i].latitude,
                                      outages[i].longitude) <= radiusKm}
    IN /\ Len(query.result) = Cardinality(wanted)
       /\ \A i \in wanted :
            query.result[Cardinality({h \in wanted : h <= i})] = outages[i]

\* A query without radius has returned the second record of the collection
\* and left out the first, which is at the query point and two days old.
C23_Witness ==
  /\ query.op = "nearby" /\ query.args[3] = Null
  /\ Len(outages) = 2
  /\ query.result = <<outages[2]>>
  /\ outages[1].latitude = query.args[1] /\ outages[1].longitude = query.args[2]
  /\ ~outages[1].estRetablie
  /\ outages[1].date = now - 2

\* ---- C24 ----
\* C24: distance symmetry.  getDistanceKm of two points is the same in both
\* directions, and the distance of a point to itself is 0.
C24_DistanceSymmetry ==
  query.op = "distance" =>
    LET lat1 == query.args[1]
        lon1 == query.args[2]
        lat2 == query.args[3]
        lon2 == query.args[4]
    IN /\ query.result = getDistanceKm(lat2, lon2, lat1, lon1)
       /\ (lat1 = lat2 /\ lon1 = lon2) => query.result = 0

\* The distance of two points that differ in latitude and in longitude has
\* been computed and is not 0.
C24_Witness ==
  /\ query.op = "distance"
  /\ query.args[1] # query.args[3]
  /\ query.args[2] # query.args[4]
  /\ query.result > 0

\* ---- C25 ----
\* C25: identifier uniqueness.  The server gives every created document a new
\* id and lists no id twice, and temporary ids are new; then in every
\* reachable state no two records of the in-memory collection have the same id.
C25_UniqueIds ==
  \A i \in DOMAIN outages : \A j \in DOMAIN outages :
    outages[i].id = outages[j].id => i = j

\* The collection holds a record of another device, a record created on the
\* server and a record with a temporary id, after passes and adds.
C25_Witness ==
  /\ Len(outages) = 3
  /\ \E i \in DOMAIN outages : outages[i].id[1] = "tmp"
  /\ \E i \in DOMAIN outages : outages[i].id = SrvId(0)
  /\ \E i \in DOMAIN outages : outages[i].id = SrvId(1)
  /\ AllIdle

\* ---- C26 ----
\* Task s ends a reconciliation pass (of loadData or of refreshOutages) in this step.
PassEnds(s) == tasks[s].pc = "list" /\ tasks'[s].op = "idle"

\* The records addOutage built offline while pass s was waiting for the list
\* call: in the collection now, not in the one the pass started from.
AddedDuringPass(s) ==
  {i \in DOMAIN outages :
     IsOffline(outages[i]) /\ outages[i].id \notin Ids(tasks[s].local)}

\* C26: an add is not lost to a pass in flight.  When a reconciliation pass
\* ends, every record that an offline addOutage put into the collection while
\* the pass was waiting for the list call is in the in-memory collection and
\* in the persisted collection after the pass.
C26_AddSurvivesPass ==
  [][\A s \in Slots :
       PassEnds(s) =>
         \A i \in AddedDuringPass(s) :
           /\ outages[i].id \in Ids(outages')
           /\ stored' # Missing
           /\ outages[i].id \in Ids(parseOutages(stored'[1]))
    ]_vars

\* What does hold: a pass whose list call fails leaves the added record in
\* memory, and a pass that merges keeps every record of the collection it
\* started from.
PassKeepsWhatItRead ==
  [][\A s \in Slots :
       /\ PassFailed(s) =>
            \A i \in AddedDuringPass(s) : outages[i].id \in Ids(outages')
       /\ PassMerged(s) => Ids(tasks[s].local) \subseteq Ids(outages')
    ]_vars

\* ---- C27 ----
\* C27: ledger entries are never lost.  Once confirmOutage(id) has returned
\* true on a day, the in-memory ledger and the persisted ledger map id to that
\* day in every later state of the day, whatever confirmOutage calls on other
\* ids overlap with it.
C27_LedgerEntriesKept ==
  \A id \in DOMAIN returnedTrue :
    returnedTrue[id] = now =>
      /\ ConfirmedToday(id)
      /\ storedConfirms # Missing
      /\ <<id, toDateString(now)>> \in storedConfirms[1]

\* ---- C28 ----
\* The confirmations of the record with this id in a collection that has one.
ConfirmationsOf(list, id) == list[FindIndex(list, id)].confirmations

\* C28: confirmOutage returns true only when a record was incremented.  When
\* confirmOutage(id) returns true, the collection it was called on had a
\* record with that id, the in-memory collection has one, and its
\* confirmations are one more than when the call was made; a call with an id
\* that no record has does not return true and writes no ledger entry.
C28_TrueMeansIncremented ==
  [][\A s \in Slots :
       Finishes(s, "confirm") =>
         LET id == tasks[s].id
             local == tasks[s].local
         IN /\ last'.result = "true" =>
                 /\ id \in Ids(local)
                 /\ id \in Ids(outages')
                 /\ ConfirmationsOf(outages', id) = ConfirmationsOf(local, id) + 1
            /\ id \notin Ids(local) =>
                 /\ last'.result # "true"
                 /\ UNCHANGED <<confirmedIds, storedConfirms>>
    ]_vars

\* What does hold in sequential use: a confirmOutage(id) on a collection that
\* has a record with that id and that returns true leaves that record in the
\* collection with one more confirmation.
TrueIncrementsMatched ==
  [][\A s \in Slots :
       (/\ Finishes(s, "confirm")
        /\ last'.result = "true"
        /\ tasks[s].id \in Ids(tasks[s].local)) =>
          /\ tasks[s].id \in Ids(outages')
          /\ ConfirmationsOf(outages', tasks[s].id)
               = ConfirmationsOf(tasks[s].local, tasks[s].id) + 1
    ]_vars

\* ---- C29 ----
\* C29: a removed record does not come back.  After the administrative path
\* has deleted a document on the server and removeOutage(id) has removed the
\* record from memory, no later state has a record with that id in the
\* in-memory collection, also after the provider is mounted again over what
\* AsyncStorage holds and has run its pass against the server.
C29_RemovedStaysRemoved ==
  \A id \in removed : id \notin Ids(outages)

\* What does hold: a document deleted this way is never on the server again.
RemovedStaysOffServer ==
  \A id \in removed : id \notin Ids(remote)

\* ---- C30 ----
\* C30: getNearbyOutages is contained in getRecentOutages(24).  For every
\* collection, clock, query point and radius, every record that
\* getNearbyOutages returns is also returned by getRecentOutages(24), a record
\* dated exactly 24 hours before the clock included.
C30_NearbyWithinRecent ==
  query.op = "nearby" =>
    \A i \in DOMAIN query.result :
      \E j \in DOMAIN getRecentOutages(outages, HoursPerDay, now) :
        getRecentOutages(outages, HoursPerDay, now)[j] = query.result[i]

\* What does hold: every record getNearbyOutages returns that is less than 24
\* hours old is returned by getRecentOutages(24), and the only records it
\* returns beyond those are dated exactly 24 hours before the clock.
NearbyWithinRecentUnlessOnCutoff ==
  query.op = "nearby" =>
    \A i \in DOMAIN query.result :
      \/ query.result[i].date = now - 1
      \/ \E j \in DOMAIN getRecentOutages(outages, HoursPerDay, now) :
           getRecentOutages(outages, HoursPerDay, now)[j] = query.result[i]

====
